---- MODULE Spec2Model ----
(***************************************************************************)
(* The recording bot (src/bot/bot.py) and the transcription endpoint       *)
(* (src/transcriber/app.py) as a state machine.                            *)
(*                                                                         *)
(* The bot runs on one asyncio event loop: a handler runs without          *)
(* interruption from one await to the next, so every action below is the   *)
(* code of one handler between two consecutive suspension points.  Calls   *)
(* that leave the repository (voice connect/disconnect, Discord sends, the *)
(* HTTP request to the transcriber, the requests to the LLM, file writes)  *)
(* return or raise; which one is a nondeterministic choice of the action.  *)
(*                                                                         *)
(* A text is modelled by what the code looks at: a transcript by its       *)
(* length (chunk_text only slices by position), a recap by the lengths of  *)
(* its lines (split_discord only counts characters per line).              *)
(***************************************************************************)
EXTENDS Integers, Sequences, FiniteSets, TLC

VARIABLES sessions, starts, stops, vcs, cb, files, clock, call, aw

vars == <<sessions, starts, stops, vcs, cb, files, clock, call, aw>>

(* ------------------------------ bounds -------------------------------- *)
MaxStarts == 2
MaxStops == 2
MaxClock == 1
MaxTracks == 2
MaxLen == 6
MaxSize == 3
MaxLine == 3
MaxLines == 3
MaxLimit == 4
MaxSegs == 3
MaxFrags == 3
MaxMixed == 2
MaxThreads == 2
MaxUsers == 2
MaxCalls == 3

(* ------------------------- program constants -------------------------- *)
GUILD_ID == 1
CHUNK_SIZE == 12000
DISCORD_LIMIT == 1900
TRANSCRIPT_CAP == 200000
DATE_DIGITS == 8
TIME_DIGITS == 6

Guilds == {GUILD_ID}
StartIds == 1..MaxStarts
StopIds == 1..MaxStops
Sids == 0..MaxClock

Min(a, b) == IF a < b THEN a ELSE b
Max(a, b) == IF a > b THEN a ELSE b

(* ---------------------------- pure functions -------------------------- *)

\* range(0, length, 0) raises ValueError.
RangeRaises(n) == n = 0

\* range(0, length, n): the start offsets 0, n, 2n, ... below length, and
\* no offset at all for a negative step (length is never negative).
ChunkCount(length, n) == IF n > 0 THEN (length + n - 1) \div n ELSE 0

\* chunk_text slicing one character past each chunk's end.
chunk_textOverlap(length, n) ==
    [k \in 1..ChunkCount(length, n) |-> <<(k - 1) * n, Min(k * n + 1, length)>>]

\* chunk_text(t, n) = [t[i:i+n] for i in range(0, len(t), n)], a text being
\* given by its length and a slice t[lo:hi] by the pair <<lo, hi>>.
chunk_text(length, n) ==
    [k \in 1..ChunkCount(length, n) |-> <<(k - 1) * n, Min(k * n, length)>>]

\* "\n".join(buf) for a part holding the lines whose lengths are buf.
RECURSIVE SumLens(_)
SumLens(buf) == IF buf = <<>> THEN 0 ELSE Head(buf) + SumLens(Tail(buf))

PartLen(buf) == IF buf = <<>> THEN 0 ELSE SumLens(buf) + Len(buf) - 1

\* The test closing the part one character early.
OverflowsEarly(count, linelen, limit) == count + linelen + 1 >= limit

\* The test looking at the running count alone, not at the incoming line.
OverflowsLate(count, linelen, limit) == count > limit

\* The test of split_discord that closes the current part before a line.
Overflows(count, linelen, limit) == count + linelen + 1 > limit

\* The loop closing a part without putting the incoming line in the next.
RECURSIVE SplitLoopDrop(_, _, _, _, _, _)
SplitLoopDrop(lines, i, parts, buf, count, limit) ==
    IF i > Len(lines)
    THEN IF buf # <<>> THEN Append(parts, buf) ELSE parts
    ELSE IF Overflows(count, lines[i], limit)
         THEN SplitLoopDrop(lines, i + 1, Append(parts, buf), <<>>, 0, limit)
         ELSE SplitLoopDrop(lines, i + 1, parts, Append(buf, lines[i]),
                            count + lines[i] + 1, limit)

\* The loop of split_discord from line i on: parts so far, the lines of the
\* current part (buf) and its running count.
RECURSIVE SplitLoop(_, _, _, _, _, _)
SplitLoop(lines, i, parts, buf, count, limit) ==
    IF i > Len(lines)
    THEN IF buf # <<>> THEN Append(parts, buf) ELSE parts
    ELSE IF Overflows(count, lines[i], limit)
         THEN SplitLoop(lines, i + 1, Append(parts, buf), <<lines[i]>>,
                        lines[i] + 1, limit)
         ELSE SplitLoop(lines, i + 1, parts, Append(buf, lines[i]),
                        count + lines[i] + 1, limit)

\* split_discord(text, limit), text.splitlines() being given by the lengths
\* of its lines; a part is the sequence of the lengths of its lines.
split_discord(lines, limit) == SplitLoop(lines, 1, <<>>, <<>>, 0, limit)

\* A text of the engine's output is given by the class of each character:
\* "c" a visible character, "sp" a blank, "nl" a line break.
Whitespace == {"sp", "nl"}

\* str.strip() from the left.
RECURSIVE LStrip(_)
LStrip(t) ==
    IF t # <<>> /\ Head(t) \in Whitespace THEN LStrip(Tail(t)) ELSE t

\* str.strip() from the right.
RECURSIVE RStrip(_)
RStrip(t) ==
    IF t # <<>> /\ t[Len(t)] \in Whitespace
    THEN RStrip(SubSeq(t, 1, Len(t) - 1)) ELSE t

\* seg.get("text", "").strip()
Strip(t) == RStrip(LStrip(t))

\* A segment rendered without its speaker label.
RenderNoLabel(seg) == Strip(seg.text)

\* The line of one segment (app.py:131-136): f"{spk}: {txt}" for a
\* speaker label that is not empty, txt otherwise; the label is one token.
Render(seg) ==
    IF seg.spk # "" THEN <<seg.spk, ":", "sp">> \o Strip(seg.text)
    ELSE Strip(seg.text)

\* "\n".join(lines)
RECURSIVE JoinNl(_)
JoinNl(ls) ==
    IF ls = <<>> THEN <<>>
    ELSE IF Len(ls) = 1 THEN Head(ls)
    ELSE Head(ls) \o <<"nl">> \o JoinNl(Tail(ls))

\* extract_plain_text on the parsed list of segments.
extract_plain_text(segs) == JoinNl([i \in 1..Len(segs) |-> Render(segs[i])])

\* The fragment's value is appended to `out`.
Carries(frag) == frag.kind \in {"text", "nonstr"}

\* stream_ollama reading the fragments from number i on: an empty line is
\* skipped, a line that does not parse or has no `response` is passed
\* over, the value of `response` is appended otherwise.
RECURSIVE StreamLoop(_, _, _)
StreamLoop(frags, i, out) ==
    IF i > Len(frags) THEN out
    ELSE StreamLoop(frags, i + 1,
                    IF Carries(frags[i]) THEN Append(out, frags[i]) ELSE out)

\* "".join(out) raises TypeError for an item that is not a str.
JoinRaises(out) == \E k \in 1..Len(out) : out[k].kind = "nonstr"

\* stream_ollama(resp): the text returned (the values in order), or the
\* TypeError of the final join.
stream_ollama(frags) ==
    LET out == StreamLoop(frags, 1, <<>>) IN
    IF JoinRaises(out) THEN [raised |-> TRUE, text |-> <<>>]
    ELSE [raised |-> FALSE, text |-> [k \in 1..Len(out) |-> out[k].value]]

(* ------------------------------ inputs -------------------------------- *)

\* Lengths of the persisted plain-text transcript the endpoint can produce.
TranscriptLens == {0, 11999, 12000, 12001}

\* Lengths at and beyond the cap of the endpoint's answer.
LongLens == {200000, 200001, 204001}

\* How one request to the LLM ends: a 200 response whose body streams the
\* text, a response with another status (its body is an error object), or
\* requests.post raising for a network error or for the timeout.
ChunkOutcomes == {"streamed", "non200", "network_error", "timeout"}

\* The outcomes in which requests.post raises.
Raising == {"network_error", "timeout"}

\* Texts the merge request can stream back, as line lengths.
MergeResponses == {<<>>, <<1000, 1000, 1000>>}

\* "[Merge step failed contacting LLM at ...: ...]", one line.
MergePlaceholder == <<80>>

\* The merge request: a 200 response streaming a text, or one of the
\* other outcomes, which stream nothing.
MergeOutcomes ==
    {[cause |-> "streamed", text |-> r] : r \in MergeResponses}
        \cup {[cause |-> c, text |-> <<>>] : c \in ChunkOutcomes \ {"streamed"}}

\* A session that runs alone (no other /startnotes command arrives in the
\* behaviour) draws the answers of the transcriber and of the LLM from the
\* full sets above; sessions that share the behaviour with other commands
\* draw them from the subsets below (one failing and one succeeding job,
\* one transcript, every chunk summarized, the merge answered, every
\* Discord call returning), which keep every effect a session has on the
\* registry and on the session directories, the state sessions share.
Detailed(v) == \A h \in StartIds \ {v} : starts[h].pc = "absent"

\* connect() returns, times out or raises another error; "setup_raises" is
\* os.makedirs or start_recording raising after a connect that returned.
ConnectOutcomes(h) ==
    IF Detailed(h) THEN {"ok", "timeout", "error", "setup_raises"}
    ELSE {"ok", "timeout", "setup_raises"}

\* stop_recording() on a voice client that no longer records raises, or
\* returns ("stopping" is then the reply).
StopAgainOutcomes(v) == IF Detailed(v) THEN {"raised", "stopping"} ELSE {"stopping"}

\* A Discord send returns (TRUE) or raises (FALSE).
SendOutcomes(v) == IF Detailed(v) THEN BOOLEAN ELSE {TRUE}

\* disconnect(force=True) returns or raises.
DisconnectOutcomes(v) == IF Detailed(v) THEN {"ok", "raised"} ELSE {"ok"}

\* application_info() raises, or the message to the owner is sent, or its
\* send raises.
OwnerOutcomes(v) ==
    IF Detailed(v) THEN {"info_raised", "sent", "send_raised"} ELSE {"sent"}

NetOutcomes(v) ==
    IF Detailed(v) THEN {"no_connect", "lost_reply", "answered"} ELSE {"answered"}

JobFails(v) ==
    IF Detailed(v) THEN {"none", "mix", "asr", "align", "srt", "text"}
    ELSE {"none", "mix"}

\* How many users the sink captured, and how many of their n tracks are
\* written before a write raises (all n when none does).
TrackCounts(v) == IF Detailed(v) THEN 0..MaxTracks ELSE {1}

WrittenCounts(v, n) == IF Detailed(v) THEN 0..n ELSE {n}

\* Whether the to_srt command, having exited with 0, left transcript.srt.
SrtWrites(v) == IF Detailed(v) THEN BOOLEAN ELSE {TRUE}

LengthsOf(v) == IF Detailed(v) THEN TranscriptLens \cup LongLens ELSE {12000}

ChunkOutcomesOf(v) == IF Detailed(v) THEN ChunkOutcomes ELSE {"streamed"}

\* How the requests of the chunk loop end, request by request: every
\* combination for up to MaxMixed chunks, the same outcome for all the
\* chunks of a longer transcript.
OutcomeVectors(v, total) ==
    IF total <= MaxMixed THEN [1..total -> ChunkOutcomesOf(v)]
    ELSE {[i \in 1..total |-> o] : o \in ChunkOutcomesOf(v)}

MergeOutcomesOf(v) ==
    IF Detailed(v) THEN MergeOutcomes
    ELSE {[cause |-> "streamed", text |-> <<1000, 1000, 1000>>]}

(* ------------------------------- state -------------------------------- *)

\* A guild without a key in `sessions`.
NoEntry == [vc |-> 0, session_id |-> -1]

IdleStart == [pc |-> "idle", reply |-> "none", voice |-> FALSE]
IdleStop == [pc |-> "idle", reply |-> "none"]
NoVc == [connected |-> FALSE, recording |-> FALSE, sid |-> -1]
NoCb == [pc |-> "none", channel |-> FALSE, saved |-> "none", disc |-> "none",
         evict |-> "none", owner |-> 0, tstatus |-> "none", length |-> -1,
         requests |-> <<>>, outcomes |-> <<>>, results |-> <<>>, prompt |-> <<>>,
         merge |-> "none", answer |-> <<>>, final |-> <<>>, parts |-> <<>>, sent |-> 0,
         log |-> <<>>]
NoFiles == [dir |-> FALSE, wavs |-> FALSE, srt |-> FALSE, txt |-> -1]

\* No call of a utility function on its own is under way.
NoCall == [fn |-> "none", length |-> 0, n |-> 0, lines |-> <<>>, limit |-> 0,
           state |-> "none", chunks |-> <<>>, parts |-> <<>>,
           sid |-> <<>>, dir |-> NoFiles, fail |-> "none", wrote |-> TRUE,
           status |-> "none", ops |-> <<>>, input |-> <<>>, out |-> <<>>]

\* The threads that call the AudioWriter and the participants they write.
Threads == 1..MaxThreads
Users == 1..MaxUsers

\* A thread outside any call of the AudioWriter.
IdleThread == [pc |-> "idle", op |-> "none", user |-> 0, frame |-> 0, h |-> 0,
               i |-> 1, size |-> 0, result |-> "none",
               pre |-> [h |-> 0, live |-> FALSE, audio |-> <<>>,
                       handles |-> {}]]

\* AudioWriter.__init__: no entry in self.files (keys lists its keys in
\* insertion order, files[u] = 0 for a user without key), no lock taken,
\* no track file written; `opened` are the wave objects not yet closed,
\* nh the number of wave objects created, written the frames of the write
\* calls that returned, final the users whose track close_all has closed.
NoWriter == [keys |-> <<>>, files |-> [u \in Users |-> 0], final |-> {},
             locks |-> [u \in Users |-> 0], disk |-> [u \in Users |-> <<>>],
             opened |-> {}, nh |-> 0, ncalls |-> 0, written |-> {},
             only_writes |-> TRUE, th |-> [t \in Threads |-> IdleThread]]

\* A /startnotes command that never arrives.
AbsentStart == [pc |-> "absent", reply |-> "none", voice |-> FALSE]

Init ==
    /\ sessions = [g \in Guilds |-> NoEntry]
    /\ starts = [h \in StartIds |-> IdleStart]
    /\ stops = [s \in StopIds |-> IdleStop]
    /\ vcs = [h \in StartIds |-> NoVc]
    /\ cb = [h \in StartIds |-> NoCb]
    /\ files = [d \in Sids |-> NoFiles]
    /\ clock = 0
    /\ call = NoCall
    /\ aw = NoWriter

\* `guild.id in sessions`
InRegistry(g) == sessions[g] # NoEntry

Event(tag) == <<tag, 0>>
Logged(v, tag) == \E i \in 1..Len(cb[v].log) : cb[v].log[i][1] = tag

(* ----------------------------- /startnotes ---------------------------- *)

\* startnotes without the membership test of line 356.
StartPrecheckNoGate(inVoice, permsOk, g) ==
    IF ~inVoice THEN "join_first"
    ELSE IF ~permsOk THEN "missing_perms"
    ELSE "proceed"

\* startnotes up to the first await: the early returns of lines 352-376.
StartPrecheck(inVoice, permsOk, g) ==
    IF ~inVoice THEN "join_first"
    ELSE IF InRegistry(g) THEN "conflict"
    ELSE IF ~permsOk THEN "missing_perms"
    ELSE "proceed"

\* A /startnotes command arrives and runs to `await ...connect(...)`; the
\* pc "connecting" spans the awaits of lines 381 and 384, between which the
\* handler touches no state.
StartCmd(h) ==
    /\ starts[h].pc = "idle"
    /\ \A j \in 1..(h - 1) : starts[j].pc # "idle"
    /\ \E inVoice \in BOOLEAN, permsOk \in BOOLEAN :
         LET r == StartPrecheck(inVoice, permsOk, GUILD_ID) IN
         starts' = [starts EXCEPT ![h] =
                      IF r = "proceed"
                      THEN [pc |-> "connecting", reply |-> "connecting",
                            voice |-> inVoice]
                      ELSE [pc |-> "done", reply |-> r, voice |-> inVoice]]
    /\ UNCHANGED <<sessions, stops, vcs, cb, files, clock, call, aw>>

\* sessions[guild.id] = {"vc": vc, "session_id": sid}
Register(g, v, sid) == [sessions EXCEPT ![g] = [vc |-> v, session_id |-> sid]]

\* connect() returns or raises; then lines 397-408 run without an await:
\* the session id is the current clock second, the directory is created,
\* the recording is started and the entry is inserted.
StartFinish(h) ==
    /\ starts[h].pc = "connecting"
    /\ \E outcome \in ConnectOutcomes(h) :
         IF outcome \in {"timeout", "error"}
         THEN /\ starts' = [starts EXCEPT
                   ![h].pc = "done",
                   ![h].reply = IF outcome = "timeout" THEN "timeout"
                                ELSE "join_failed"]
              /\ UNCHANGED <<sessions, vcs, cb, files, clock>>
         ELSE IF outcome = "setup_raises"
         THEN \* os.makedirs or start_recording raises: the handler ends
              \* with the voice client connected and nothing registered.
              /\ starts' = [starts EXCEPT ![h].pc = "done", ![h].reply = "raised"]
              /\ vcs' = [vcs EXCEPT ![h].connected = TRUE]
              /\ UNCHANGED <<sessions, cb, files, clock>>
         ELSE \E t \in clock..Min(clock + 1, MaxClock) :
              /\ clock' = t
              /\ files' = [files EXCEPT ![t].dir = TRUE]
              /\ vcs' = [vcs EXCEPT ![h] =
                           [connected |-> TRUE, recording |-> TRUE, sid |-> t]]
              /\ cb' = [cb EXCEPT ![h].log = <<Event("start")>>]
              /\ sessions' = Register(GUILD_ID, h, t)
              /\ starts' = [starts EXCEPT ![h].pc = "done", ![h].reply = "started"]
    /\ UNCHANGED <<stops, call, aw>>

(* ------------------------------ /stopnotes ---------------------------- *)

\* A /stopnotes command arrives and suspends at `await ctx.defer(...)`.
StopCmd(s) ==
    /\ stops[s].pc = "idle"
    /\ \A j \in 1..(s - 1) : stops[j].pc # "idle"
    /\ stops' = [stops EXCEPT ![s].pc = "deferred"]
    /\ UNCHANGED <<sessions, starts, vcs, cb, files, clock, call, aw>>

\* /stopnotes answering as if a recording had been stopped.
NoSessionReplyStopping == "stopping"

\* The reply of /stopnotes when the guild has no key in `sessions`.
NoSessionReply == "no_active"

\* Lines 414-421: the lookup and vc.stop_recording().  Stopping a voice
\* client that records ends the capture and schedules finished_callback;
\* on one that no longer records the call raises or returns, and schedules
\* nothing.
StopRun(s) ==
    /\ stops[s].pc = "deferred"
    /\ IF ~InRegistry(GUILD_ID)
       THEN /\ stops' = [stops EXCEPT ![s] = [pc |-> "done", reply |-> NoSessionReply]]
            /\ UNCHANGED <<vcs, cb>>
       ELSE LET v == sessions[GUILD_ID].vc IN
            IF vcs[v].recording
            THEN /\ vcs' = [vcs EXCEPT ![v].recording = FALSE]
                 /\ cb' = [cb EXCEPT ![v].pc = "scheduled",
                                     ![v].log = Append(@, Event("stop"))]
                 /\ stops' = [stops EXCEPT ![s] = [pc |-> "done", reply |-> "stopping"]]
            ELSE /\ \E r \in StopAgainOutcomes(v) :
                      stops' = [stops EXCEPT ![s] = [pc |-> "done", reply |-> r]]
                 /\ UNCHANGED <<vcs, cb>>
    /\ UNCHANGED <<sessions, starts, files, clock, call, aw>>

(* -------------------------- finished_callback ------------------------- *)

Sid(v) == vcs[v].sid

\* Lines 426-441: the channel lookup, the loop writing one file per captured
\* user, and the call of disconnect.  Of n captured tracks k are written;
\* k < n means the write of track k+1 raised, which ends the coroutine.
CbBegin(v) ==
    /\ cb[v].pc = "scheduled"
    /\ \E ch \in BOOLEAN, n \in TrackCounts(v) :
       \E k \in WrittenCounts(v, n) :
         /\ files' = [files EXCEPT ![Sid(v)].wavs = @ \/ k > 0]
         /\ cb' = [cb EXCEPT ![v] =
              IF k = n
              THEN [@ EXCEPT !.pc = "disconnecting", !.channel = ch,
                             !.saved = "all",
                             !.log = Append(@, Event("tracks"))]
              ELSE [@ EXCEPT !.pc = "raised", !.channel = ch,
                             !.saved = "partial"]]
    /\ UNCHANGED <<sessions, starts, stops, vcs, clock, call, aw>>

\* del sessions[guild_id], a missing key being caught and logged.
Evict(g) == [sessions EXCEPT ![g] = NoEntry]

\* Where the callback suspends next after the registry entry is cleared.
AfterEvict(channel) == IF channel THEN "send_captured" ELSE "app_info"

\* Lines 441-462: disconnect returned or raised (caught); the guild's key
\* is deleted; then the callback awaits either application_info() (no post
\* channel) or the first channel.send.
CbDisconnected(v) ==
    /\ cb[v].pc = "disconnecting"
    /\ \E d \in DisconnectOutcomes(v) :
         /\ vcs' = [vcs EXCEPT ![v].connected = (d = "raised")]
         /\ cb' = [cb EXCEPT ![v].pc = AfterEvict(cb[v].channel),
                             ![v].disc = d,
                             ![v].evict = IF InRegistry(GUILD_ID)
                                          THEN "deleted" ELSE "missing",
                             ![v].log = @ \o <<Event("disconnect"), Event("evict")>>]
    /\ sessions' = Evict(GUILD_ID)
    /\ UNCHANGED <<starts, stops, files, clock, call, aw>>

\* Lines 455-460: application_info() returns or raises (uncaught); the
\* message to the owner is sent or its failure is logged; then return.
CbOwner(v) ==
    /\ cb[v].pc = "app_info"
    /\ \E o \in OwnerOutcomes(v) :
         cb' = [cb EXCEPT ![v].pc = IF o = "info_raised" THEN "raised" ELSE "failed",
                          ![v].owner = IF o = "sent" THEN 1 ELSE 0,
                          ![v].log = IF o = "sent"
                                     THEN Append(@, Event("owner_msg")) ELSE @]
    /\ UNCHANGED <<sessions, starts, stops, vcs, files, clock, call, aw>>

\* Lines 462-468: the "Audio captured" message is sent or the send raises
\* (uncaught); then the request to the transcriber is issued.
CbSendCaptured(v) ==
    /\ cb[v].pc = "send_captured"
    /\ \E ok \in SendOutcomes(v) :
         cb' = [cb EXCEPT ![v].pc = IF ok THEN "transcribing" ELSE "raised",
                          ![v].log = IF ok
                                     THEN @ \o <<Event("msg_captured"),
                                                 Event("transcribe_req")>>
                                     ELSE @]
    /\ UNCHANGED <<sessions, starts, stops, vcs, files, clock, call, aw>>

(* ---------------------- transcriber: POST /transcribe ----------------- *)

\* The external commands of the job in the order the endpoint runs them:
\* merge_tracks (ffmpeg), whisperx transcribe, align, to_srt, and the
\* extraction of the plain text.
JobSteps == <<"mix", "asr", "align", "srt", "text">>

StepIndex(step) == CHOOSE i \in 1..Len(JobSteps) : JobSteps[i] = step

\* The job going through all its steps whatever fails.
StepsRunAll(fail) == Len(JobSteps)

\* How many steps run when `fail` is the step that fails ("none": all run).
StepsRun(fail) == IF fail = "none" THEN Len(JobSteps) ELSE StepIndex(fail)

\* A session id as the endpoint receives it is a string, given here by the
\* class of each character: "d" an ASCII digit, "ud" a decimal digit of
\* another script, "_" the underscore, "nl" the newline, "x" anything else.
IdChars == {"d", "ud", "_", "nl", "x"}

\* What \d matches in a str pattern: the decimal digits of every script.
DigitChars == {"d", "ud"}

\* The length of \d{8}_\d{6}.
IdLen == DATE_DIGITS + 1 + TIME_DIGITS

\* \d{8}_\d{6} matches at the start of s.
PatternAt(s) ==
    /\ Len(s) >= IdLen
    /\ \A i \in 1..DATE_DIGITS : s[i] \in DigitChars
    /\ s[DATE_DIGITS + 1] = "_"
    /\ \A i \in (DATE_DIGITS + 2)..IdLen : s[i] \in DigitChars

\* `$` after i characters of s: the end of the string, or the position
\* just before a newline that is the last character.
Dollar(s, i) == i = Len(s) \/ (i = Len(s) - 1 /\ s[Len(s)] = "nl")

\* re.match(r'^\d{8}_\d{6}$', sid)
re_match(s) == PatternAt(s) /\ Dollar(s, IdLen)

\* The whole transcript returned whatever its length.
Uncapped(length) == length

\* Line 84: transcript_text[:200000], the text being given by its length.
Capped(length) == Min(length, TRANSCRIPT_CAP)

\* transcribe(job) on the session directory f: the status of the response,
\* the steps invoked, the directory afterwards and the length of the
\* transcript_text returned.  `fail` names the step that fails, `wrote`
\* tells whether a to_srt that returned left its output file, `length`
\* is the length of the plain text the engine's output renders to.
TranscribeJob(f, fail, wrote, length) ==
    IF ~f.dir
    THEN [status |-> "404", ran |-> <<>>, files |-> f, text |-> -1]
    ELSE IF ~f.wavs
    THEN [status |-> "400", ran |-> <<>>, files |-> f, text |-> -1]
    ELSE [status |-> IF fail = "none" THEN "200" ELSE "500",
          ran |-> SubSeq(JobSteps, 1, StepsRun(fail)),
          files |-> [f EXCEPT !.srt = @ \/ (fail \in {"none", "text"} /\ wrote),
                              !.txt = IF fail = "none" THEN length ELSE @],
          text |-> IF fail = "none" THEN Capped(length) ELSE -1]

JobEvents(ran) == [i \in 1..Len(ran) |-> Event(ran[i])]

\* POST /transcribe with the session id sid, f being the directory the
\* path built from sid names: the response and what the handler did, in
\* order ("validate" the regex test, "path" the construction of
\* session_dir, "exists" and "glob" the look at the directory, then the
\* steps of the job).
TranscribeRequest(sid, f, fail, wrote, length) ==
    IF ~re_match(sid)
    THEN [status |-> "400", ops |-> <<"validate">>, files |-> f, text |-> -1]
    ELSE LET job == TranscribeJob(f, fail, wrote, length) IN
         [status |-> job.status,
          ops |-> <<"validate", "path", "exists">>
                      \o (IF f.dir THEN <<"glob">> ELSE <<>>) \o job.ran,
          files |-> job.files, text |-> job.text]

\* The callback going on to the summary whatever the transcriber answered.
AfterTranscribeAlways(status) == "send_generating"

\* What the callback awaits next once the transcriber's answer is in:
\* the error message (status other than 200, or the request raised), or
\* the "Generating summary" message.
AfterTranscribe(status) ==
    IF status = "200" THEN "send_generating" ELSE "send_terror"

\* Lines 468-488: the request to the transcriber completes.  The request
\* does not reach the endpoint ("no_connect"), or the job runs and its
\* answer is lost or unreadable ("lost_reply"), or the answer arrives.
CbTranscribed(v) ==
    /\ cb[v].pc = "transcribing"
    /\ \E net \in NetOutcomes(v), fail \in JobFails(v),
          wrote \in SrtWrites(v), length \in LengthsOf(v) :
         LET job == TranscribeJob(files[Sid(v)], fail, wrote, length)
             status == IF net = "answered" THEN job.status ELSE "raised"
         IN
         /\ net = "no_connect" => fail = "none"
         /\ files' = IF net = "no_connect" THEN files
                     ELSE [files EXCEPT ![Sid(v)] = job.files]
         /\ cb' = [cb EXCEPT
              ![v].pc = AfterTranscribe(status),
              ![v].tstatus = status,
              ![v].length = IF status = "200" THEN job.text ELSE -1,
              ![v].log = @ \o (IF net = "no_connect" THEN <<>>
                               ELSE JobEvents(job.ran))
                           \o <<Event(IF status = "200" THEN "transcribe_ok"
                                      ELSE "transcribe_failed")>>]
    /\ UNCHANGED <<sessions, starts, stops, vcs, clock, call, aw>>

\* The error message sent without the `return`.
AfterErrorFallsThrough(ok) == IF ok THEN "send_generating" ELSE "raised"

\* `return await channel.send(error)`: the callback is over, by the return
\* or by the exception of the send.
AfterError(ok) == IF ok THEN "failed" ELSE "raised"

\* Lines 472/477: the error message is sent, or the send raises.
CbSendTError(v) ==
    /\ cb[v].pc = "send_terror"
    /\ \E ok \in SendOutcomes(v) :
         cb' = [cb EXCEPT ![v].pc = AfterError(ok),
                          ![v].log = IF ok THEN Append(@, Event("msg_error"))
                                     ELSE @]
    /\ UNCHANGED <<sessions, starts, stops, vcs, files, clock, call, aw>>

(* --------------------------- summarize, publish ----------------------- *)

\* One log entry per chunk request, labelled with the chunk's index.
ChunkEvents(total) == [i \in 1..total |-> <<"chunk_req", i>>]

\* A chunk request carrying the text of the first chunk whatever its label.
ChunkPayloadFirst(i, chunks) ==
    [template |-> "recap_prompt", index |-> i, total |-> Len(chunks),
     text |-> chunks[1]]

\* Lines 496-504: the prompt of the request for chunk i is the instruction
\* template, the label "[TRANSCRIPT CHUNK i/len(chunks)]" and the chunk.
ChunkPayload(i, chunks) ==
    [template |-> "recap_prompt", index |-> i, total |-> Len(chunks),
     text |-> chunks[i]]

\* The payloads posted by the loop of lines 494-511, in the order posted.
ChunkPayloads(chunks) == [i \in 1..Len(chunks) |-> ChunkPayload(i, chunks)]

\* What lines 505-511 append to `outlines` for chunk i: stream_ollama(r),
\* which is the summary of the chunk for a streamed answer and "" for an
\* error body (it has no `response` fragment), or the placeholder
\* "[Chunk i summarization failed: ...]" when requests.post raised.
ChunkSlot(i, outcome) ==
    [chunk |-> i,
     kind |-> IF outcome \in Raising THEN "placeholder"
              ELSE IF outcome = "non200" THEN "empty"
              ELSE "summary"]

\* The loop over the chunks putting each result first in the list.
RECURSIVE MapLoopPrepend(_, _, _, _)
MapLoopPrepend(total, i, outlines, outcomes) ==
    IF i > total THEN outlines
    ELSE MapLoopPrepend(total, i + 1,
                        <<ChunkSlot(i, outcomes[i])>> \o outlines, outcomes)

\* Lines 494-511: the loop over the chunks from chunk i on; every request
\* is made and its result appended before the next chunk is looked at.
RECURSIVE MapLoop(_, _, _, _)
MapLoop(total, i, outlines, outcomes) ==
    IF i > total THEN outlines
    ELSE MapLoop(total, i + 1,
                 Append(outlines, ChunkSlot(i, outcomes[i])), outcomes)

\* The separator of "\n\n".join: a blank line.
Blank == [chunk |-> 0, kind |-> "blank"]

\* "\n\n".join(outlines)
RECURSIVE JoinBlank(_)
JoinBlank(outlines) ==
    IF Len(outlines) <= 1 THEN outlines
    ELSE <<Head(outlines), Blank>> \o JoinBlank(Tail(outlines))

\* The merge request raised.
MergeRaised(merge) == merge.cause \in Raising

\* The recap: the streamed answer of the merge request, or the placeholder
\* of the except branch when the request raised.
FinalRecap(merge) == IF MergeRaised(merge) THEN MergePlaceholder ELSE merge.text

\* The subtitle file sent without looking for it on disk.
AfterPartsAlways(sid) == "send_srt"

\* Lines 539-547 up to the next await: the subtitle file is sent only if
\* it exists; otherwise the callback is over.
AfterParts(sid) == IF files[sid].srt THEN "send_srt" ELSE "completed"

\* Where the callback suspends after the recap is split: at the send of
\* the first part, or past the loop when there is no part.
AfterSplit(parts, sid) == IF parts # <<>> THEN "publishing" ELSE AfterParts(sid)

\* Lines 488-536: "Generating summary" is sent (or the send raises), then,
\* without an await (requests.post blocks the loop), the transcript is
\* chunked, one request is made per chunk in order, the results are joined
\* and merged, and the recap is split; the callback suspends at the send
\* of the first part.
CbSummarize(v) ==
    /\ cb[v].pc = "send_generating"
    /\ \/ /\ FALSE \in SendOutcomes(v)
          /\ cb' = [cb EXCEPT ![v].pc = "raised"]
       \/ LET chunks == chunk_text(cb[v].length, CHUNK_SIZE)
              total == Len(chunks)
          IN
          \E rs \in OutcomeVectors(v, total),
             merge \in MergeOutcomesOf(v) :
            LET outlines == MapLoop(total, 1, <<>>, rs)
                final == FinalRecap(merge)
                parts == split_discord(final, DISCORD_LIMIT)
            IN
            cb' = [cb EXCEPT
                ![v].pc = AfterSplit(parts, Sid(v)),
                ![v].requests = ChunkPayloads(chunks),
                ![v].outcomes = rs,
                ![v].results = outlines,
                ![v].prompt = JoinBlank(outlines),
                ![v].merge = merge.cause,
                ![v].answer = merge.text,
                ![v].final = final,
                ![v].parts = parts,
                ![v].log = @ \o <<Event("msg_generating")>>
                             \o ChunkEvents(total)
                             \o <<Event("merge_req"),
                                  <<"merge_done", IF MergeRaised(merge) THEN 0 ELSE 1>>>>]
    /\ UNCHANGED <<sessions, starts, stops, vcs, files, clock, call, aw>>

\* Line 536: one part is sent, or the send raises (uncaught).
CbSendPart(v) ==
    /\ cb[v].pc = "publishing"
    /\ \E ok \in SendOutcomes(v) :
         cb' = [cb EXCEPT
             ![v].pc = IF ~ok THEN "raised"
                       ELSE IF cb[v].sent + 1 = Len(cb[v].parts)
                            THEN AfterParts(Sid(v)) ELSE "publishing",
             ![v].sent = IF ok THEN @ + 1 ELSE @,
             ![v].log = IF ok THEN Append(@, <<"part", cb[v].sent + 1>>) ELSE @]
    /\ UNCHANGED <<sessions, starts, stops, vcs, files, clock, call, aw>>

\* Line 542: the subtitle file is sent, or the send raises (uncaught).
CbSendSrt(v) ==
    /\ cb[v].pc = "send_srt"
    /\ \E ok \in SendOutcomes(v) :
         cb' = [cb EXCEPT ![v].pc = IF ok THEN "completed" ELSE "raised",
                          ![v].log = IF ok THEN Append(@, Event("srt_file")) ELSE @]
    /\ UNCHANGED <<sessions, starts, stops, vcs, files, clock, call, aw>>

(* --------------------------- specification ---------------------------- *)

Next ==
    \/ \E h \in StartIds : StartCmd(h)
    \/ \E h \in StartIds : StartFinish(h)
    \/ \E s \in StopIds : StopCmd(s)
    \/ \E s \in StopIds : StopRun(s)
    \/ \E v \in StartIds : CbBegin(v)
    \/ \E v \in StartIds : CbDisconnected(v)
    \/ \E v \in StartIds : CbOwner(v)
    \/ \E v \in StartIds : CbSendCaptured(v)
    \/ \E v \in StartIds : CbTranscribed(v)
    \/ \E v \in StartIds : CbSendTError(v)
    \/ \E v \in StartIds : CbSummarize(v)
    \/ \E v \in StartIds : CbSendPart(v)
    \/ \E v \in StartIds : CbSendSrt(v)

Spec == Init /\ [][Next]_vars

\* The behaviours with a single /startnotes command and any /stopnotes
\* commands: one session, with every answer of the transcriber and the LLM.
InitOne ==
    /\ sessions = [g \in Guilds |-> NoEntry]
    /\ starts = [h \in StartIds |-> IF h = 1 THEN IdleStart ELSE AbsentStart]
    /\ stops = [s \in StopIds |-> IdleStop]
    /\ vcs = [h \in StartIds |-> NoVc]
    /\ cb = [h \in StartIds |-> NoCb]
    /\ files = [d \in Sids |-> NoFiles]
    /\ clock = 0
    /\ call = NoCall
    /\ aw = NoWriter

SpecOne == InitOne /\ [][Next]_vars

(* ------------------- the utility functions on their own --------------- *)

\* The sequences over S of length at most n.
SeqsUpTo(S, n) == UNION {[1..k -> S] : k \in 0..n}

\* Arguments of chunk_text: short texts with small chunk sizes of either
\* sign and zero, and the transcripts of the pipeline with its chunk size.
ChunkArgs ==
    ((0..MaxLen) \X ((0 - MaxSize)..MaxSize))
        \cup (TranscriptLens \X {CHUNK_SIZE})

\* Arguments of split_discord: texts of few short lines under small limits,
\* and recaps of the pipeline's scale under its limit.
RecapExamples == MergeResponses \cup {MergePlaceholder, <<5000>>, <<1000, 898>>, <<1000, 899>>}

SplitArgs ==
    (SeqsUpTo(0..MaxLine, MaxLines) \X (1..MaxLimit))
        \cup (RecapExamples \X {DISCORD_LIMIT})

ChunkCall(a) == [NoCall EXCEPT !.fn = "chunk_text", !.state = "pending",
                               !.length = a[1], !.n = a[2]]

SplitCall(a) == [NoCall EXCEPT !.fn = "split_discord", !.state = "pending",
                               !.lines = a[1], !.limit = a[2]]

\* "20240115_093000"
ValidId == [i \in 1..IdLen |-> IF i = DATE_DIGITS + 1 THEN "_" ELSE "d"]

\* Session ids sent to the endpoint: the well-formed id; the id with one
\* character replaced, cut short, or with one character added in front or
\* behind; "../../etc", "2024-01-15" and the empty string.
IdInputs ==
    {ValidId}
        \cup {[ValidId EXCEPT ![i] = c] : i \in 1..IdLen, c \in IdChars}
        \cup {SubSeq(ValidId, 1, k) : k \in 0..IdLen}
        \cup {ValidId \o <<c>> : c \in IdChars}
        \cup {<<c>> \o ValidId : c \in IdChars}
        \cup {ValidId \o <<"nl", c>> : c \in IdChars}
        \cup {[i \in 1..9 |-> "x"],
              <<"d", "d", "d", "d", "x", "d", "d", "x", "d", "d">>}

\* The directory a request finds: missing, without a track, with tracks
\* (and with the subtitle file of an earlier job or without it).
DirInputs ==
    {NoFiles, [NoFiles EXCEPT !.dir = TRUE]}
        \cup {[NoFiles EXCEPT !.dir = TRUE, !.wavs = TRUE, !.srt = b] : b \in BOOLEAN}

\* Requests to the endpoint: an id, a directory, the step of the job that
\* fails (if it gets to run) and whether to_srt leaves its file.
TranscribeArgs ==
    {a \in IdInputs \X DirInputs \X {"none", "mix", "asr", "align", "srt", "text"}
            \X BOOLEAN :
        a[2].wavs \/ (a[3] = "none" /\ a[4])}

TranscribeCall(a) == [NoCall EXCEPT !.fn = "transcribe", !.state = "pending",
                                    !.sid = a[1], !.dir = a[2], !.fail = a[3],
                                    !.wrote = a[4], !.length = MaxLen]

\* Texts of a segment: empty, plain, with a blank in front or behind (as
\* the engine emits them), with a blank or a line break inside.
SegTexts == {<<>>, <<"c">>, <<"sp", "c">>, <<"c", "sp">>, <<"c", "sp", "c">>,
             <<"c", "nl", "c">>}

\* A segment: its speaker label ("" when the key is missing or empty) and
\* its text.
Segments == [spk : {"", "S"}, text : SegTexts]

ExtractCall(segs) == [NoCall EXCEPT !.fn = "extract_plain_text",
                                    !.state = "pending", !.input = segs]

\* The lines of a streamed body: an empty line, a line that is no JSON, a
\* JSON value without `response`, an object whose `response` is the text
\* "a" or "b", and an object whose `response` is not a string (null, a
\* number).
Fragments ==
    {[kind |-> k, value |-> ""] : k \in {"blank", "garbage", "nofield", "nonstr"}}
        \cup {[kind |-> "text", value |-> t] : t \in {"a", "b"}}

StreamCall(frags) == [NoCall EXCEPT !.fn = "stream_ollama",
                                   !.state = "pending", !.input = frags]

\* One call of one utility function, its arguments chosen; the bot idle.
InitUtil ==
    /\ sessions = [g \in Guilds |-> NoEntry]
    /\ starts = [h \in StartIds |-> AbsentStart]
    /\ stops = [s \in StopIds |-> IdleStop]
    /\ vcs = [h \in StartIds |-> NoVc]
    /\ cb = [h \in StartIds |-> NoCb]
    /\ files = [d \in Sids |-> NoFiles]
    /\ clock = 0
    /\ call \in {ChunkCall(a) : a \in ChunkArgs}
                 \cup {SplitCall(a) : a \in SplitArgs}
                 \cup {TranscribeCall(a) : a \in TranscribeArgs}
                 \cup {ExtractCall(a) : a \in SeqsUpTo(Segments, MaxSegs)}
                 \cup {StreamCall(a) : a \in SeqsUpTo(Fragments, MaxFrags)}
    /\ aw = NoWriter

\* chunk_text(t, n) runs: the list comprehension returns its list, or the
\* ValueError of range() ends the call.
CallChunkText ==
    /\ call.fn = "chunk_text" /\ call.state = "pending"
    /\ call' = IF RangeRaises(call.n)
               THEN [call EXCEPT !.state = "raised"]
               ELSE [call EXCEPT !.state = "returned",
                                 !.chunks = chunk_text(call.length, call.n)]
    /\ UNCHANGED <<sessions, starts, stops, vcs, cb, files, clock, aw>>

\* split_discord(text, limit) runs and returns its parts.
CallSplitDiscord ==
    /\ call.fn = "split_discord" /\ call.state = "pending"
    /\ call' = [call EXCEPT !.state = "returned",
                            !.parts = split_discord(call.lines, call.limit)]
    /\ UNCHANGED <<sessions, starts, stops, vcs, cb, files, clock, aw>>

\* transcribe(job) runs and answers.
CallTranscribe ==
    /\ call.fn = "transcribe" /\ call.state = "pending"
    /\ LET r == TranscribeRequest(call.sid, call.dir, call.fail, call.wrote,
                                  call.length)
       IN  call' = [call EXCEPT !.state = "returned", !.status = r.status,
                                !.ops = r.ops, !.dir = r.files,
                                !.out = <<r.text>>]
    /\ UNCHANGED <<sessions, starts, stops, vcs, cb, files, clock, aw>>

\* extract_plain_text runs on a file that parses and returns the text.
CallExtract ==
    /\ call.fn = "extract_plain_text" /\ call.state = "pending"
    /\ call' = [call EXCEPT !.state = "returned",
                            !.out = extract_plain_text(call.input)]
    /\ UNCHANGED <<sessions, starts, stops, vcs, cb, files, clock, aw>>

\* stream_ollama(resp) runs over the lines of the body.
CallStream ==
    /\ call.fn = "stream_ollama" /\ call.state = "pending"
    /\ LET r == stream_ollama(call.input) IN
       call' = [call EXCEPT !.state = IF r.raised THEN "raised" ELSE "returned",
                            !.out = r.text]
    /\ UNCHANGED <<sessions, starts, stops, vcs, cb, files, clock, aw>>

NextUtil ==
    \/ CallChunkText
    \/ CallSplitDiscord
    \/ CallTranscribe
    \/ CallExtract
    \/ CallStream

SpecUtil == InitUtil /\ [][NextUtil]_vars

(* ------------------------- derived session state ---------------------- *)

\* The callback has returned or an exception has ended it.
PipelineOver(v) == cb[v].pc \in {"completed", "failed", "raised"}

\* The lifecycle state of the session of /startnotes command v, read off
\* the voice client and the callback's position.  A callback ended by an
\* exception before the registry entry was cleared leaves the session in
\* Stopping: nothing moves it on.
SessionState(v) ==
    IF cb[v].log = <<>> THEN "None"
    ELSE IF vcs[v].recording THEN "Recording"
    ELSE IF cb[v].pc \in {"scheduled", "disconnecting"} THEN "Stopping"
    ELSE IF cb[v].pc = "raised" /\ cb[v].evict = "none" THEN "Stopping"
    ELSE IF cb[v].pc \in {"send_captured", "transcribing"} THEN "Transcribing"
    ELSE IF cb[v].pc = "send_generating" THEN "Summarizing"
    ELSE IF cb[v].pc \in {"publishing", "send_srt"} THEN "Publishing"
    ELSE IF cb[v].pc = "completed" THEN "Completed"
    ELSE "Failed"

NonTerminal == {"Recording", "Stopping", "Transcribing", "Summarizing", "Publishing"}
Terminal == {"Completed", "Failed"}

\* Every occurrence of event b in the log of v comes after an occurrence of a.
Before(v, a, b) ==
    \A j \in 1..Len(cb[v].log) :
        cb[v].log[j][1] = b => \E i \in 1..(j - 1) : cb[v].log[i][1] = a

\* Messages the callback delivered to the post channel.
PublishedTags == {"msg_captured", "msg_error", "msg_generating", "part", "srt_file"}
Published(v) == \E t \in PublishedTags : Logged(v, t)

(* ------------------------------- claims ------------------------------- *)

\* C1: a /startnotes command of a caller in a voice channel that finds the
\* guild in the registry is answered "Already recording" and changes
\* neither the registry nor any voice client, callback or file; one that
\* finds the guild absent is not answered with the conflict, and when its
\* connect and setup succeed it registers its own session.
C1_StartGate ==
    [][\A h \in StartIds :
         /\ (starts[h].pc = "idle" /\ starts'[h].pc # "idle" /\ starts'[h].voice) =>
              IF InRegistry(GUILD_ID)
              THEN /\ starts'[h].pc = "done"
                   /\ starts'[h].reply = "conflict"
                   /\ UNCHANGED <<sessions, vcs, cb, files, clock>>
              ELSE starts'[h].reply \in {"connecting", "missing_perms"}
         /\ (starts[h].pc = "connecting" /\ starts'[h].reply = "started") =>
              /\ sessions'[GUILD_ID].vc = h
              /\ vcs'[h].recording]_vars

\* C1 witness: a command was turned away while the guild is registered.
C1_Witness ==
    \E h \in StartIds :
        /\ starts[h].reply = "conflict"
        /\ starts[h].voice
        /\ InRegistry(GUILD_ID)

\* C2: whenever a /startnotes command registers its session, the guild has
\* no entry yet and no other voice client of the guild is recording.
C2_AtomicAcquire ==
    [][\A h \in StartIds :
         (starts[h].pc = "connecting" /\ starts'[h].reply = "started") =>
             /\ ~InRegistry(GUILD_ID)
             /\ \A k \in StartIds \ {h} : ~vcs[k].recording]_vars

\* C3: a session has left the registry only once it is Completed or Failed,
\* and no session is Recording while another session of the guild is being
\* transcribed, summarized or published.
C3_OneActiveSession ==
    /\ \A v \in StartIds : cb[v].evict # "none" => SessionState(v) \in Terminal
    /\ \A v, w \in StartIds :
         (v # w /\ SessionState(v) = "Recording") =>
             SessionState(w) \notin {"Transcribing", "Summarizing", "Publishing"}

\* C4: once the callback of a stopped session is over, every captured track
\* has been written, disconnect has been attempted and the guild's entry
\* has been cleared.
C4_CleanupAlways ==
    \A v \in StartIds :
        PipelineOver(v) =>
            /\ cb[v].saved = "all"
            /\ cb[v].disc # "none"
            /\ cb[v].evict # "none"

\* C5: a /stopnotes command that finds no entry for the guild answers
\* "No active recording" and changes neither the registry nor any voice
\* client, callback or file.
C5_StopWithoutSession ==
    [][\A s \in StopIds :
         (stops[s].pc = "deferred" /\ stops'[s].pc = "done" /\ ~InRegistry(GUILD_ID)) =>
             /\ stops'[s].reply = "no_active"
             /\ UNCHANGED <<sessions, vcs, cb, files, starts>>]_vars

\* C5 witness: a stop was answered "No active recording".
C5_Witness == \E s \in StopIds : stops[s].reply = "no_active"

\* No occurrence of event b in the log of v comes after an occurrence of a.
NeverAfter(v, a, b) ==
    \A i, j \in 1..Len(cb[v].log) :
        (cb[v].log[i][1] = a /\ cb[v].log[j][1] = b) => j < i

\* C6: in the log of every session each stage comes after the stage it
\* depends on: stop after start, tracks after stop, the transcription
\* request after the tracks, the job's steps one after the other, chunk and
\* merge requests only after a successful transcription, chunk requests
\* before the merge request, recap parts only after the merge step has
\* produced the recap, and the subtitle file after the parts.
C6_StageOrder ==
    \A v \in StartIds :
        /\ Before(v, "start", "stop")
        /\ Before(v, "stop", "tracks")
        /\ Before(v, "tracks", "transcribe_req")
        /\ Before(v, "transcribe_req", "mix")
        /\ Before(v, "mix", "asr")
        /\ Before(v, "asr", "align")
        /\ Before(v, "align", "srt")
        /\ Before(v, "srt", "text")
        /\ Before(v, "text", "transcribe_ok")
        /\ Before(v, "transcribe_ok", "chunk_req")
        /\ Before(v, "transcribe_ok", "merge_req")
        /\ NeverAfter(v, "merge_req", "chunk_req")
        /\ Before(v, "merge_done", "part")
        /\ Before(v, "merge_done", "srt_file")
        /\ NeverAfter(v, "srt_file", "part")
        /\ cb[v].pc = "completed" => Logged(v, "merge_done")

\* C6 witness: a session completed after publishing parts and the subtitles.
C6_Witness ==
    \E v \in StartIds :
        /\ cb[v].pc = "completed"
        /\ Logged(v, "chunk_req")
        /\ Logged(v, "part")
        /\ Logged(v, "srt_file")

\* C7: a session whose transcription request failed (status other than 200
\* or an exception) never issues a chunk or merge request and never
\* publishes a recap part or the subtitle file, and by then its tracks are
\* written, disconnect has been attempted and the guild's entry cleared.
C7_AbortOnTranscribeFailure ==
    \A v \in StartIds :
        cb[v].tstatus \notin {"none", "200"} =>
            /\ ~Logged(v, "chunk_req")
            /\ ~Logged(v, "merge_req")
            /\ ~Logged(v, "part")
            /\ ~Logged(v, "srt_file")
            /\ cb[v].saved = "all"
            /\ cb[v].disc # "none"
            /\ cb[v].evict # "none"

\* C7 witness: a job failed with status 500 and the callback returned.
C7_Witness ==
    \E v \in StartIds : cb[v].tstatus = "500" /\ cb[v].pc = "failed"

\* C8: every session whose callback ended in failure delivered at least one
\* message, to the post channel or to the owner.
C8_FailureReported ==
    \A v \in StartIds :
        cb[v].pc \in {"failed", "raised"} => (Published(v) \/ cb[v].owner = 1)

\* C9: a session whose callback is over is Completed or Failed and is no
\* longer the guild's registry entry.
C9_NoStuckSession ==
    \A v \in StartIds :
        PipelineOver(v) =>
            /\ SessionState(v) \in Terminal
            /\ sessions[GUILD_ID].vc # v

\* C10: once the chunks are summarized, their number T for a transcript of
\* length L is max(1, ceil(L / CHUNK_SIZE)): T >= 1 and
\* (T - 1) * CHUNK_SIZE < max(L, 1) <= T * CHUNK_SIZE.
C10_ChunkCount ==
    \A v \in StartIds :
        Logged(v, "merge_req") =>
            LET T == Len(cb[v].results)
                L == Max(cb[v].length, 1)
            IN  /\ T >= 1
                /\ (T - 1) * CHUNK_SIZE < L
                /\ L <= T * CHUNK_SIZE

\* A call of chunk_text that has returned.
ChunkReturned == call.fn = "chunk_text" /\ call.state = "returned"

\* The length of the slice <<lo, hi>>.
SliceLen(c) == c[2] - c[1]

\* C11: for every transcript and every chunk size N > 0 the chunks of
\* chunk_text tile the transcript: the first starts at 0, each starts where
\* the previous one ends, the last ends at the end of the text (so their
\* concatenation in index order is the text), none is longer than N and
\* every chunk but the last has exactly N characters.
C11_ChunksContiguous ==
    (ChunkReturned /\ call.n > 0) =>
        LET c == call.chunks
            T == Len(c)
        IN  /\ T = 0 => call.length = 0
            /\ T > 0 => c[1][1] = 0 /\ c[T][2] = call.length
            /\ \A k \in 1..(T - 1) :
                   c[k][2] = c[k + 1][1] /\ SliceLen(c[k]) = call.n
            /\ \A k \in 1..T : SliceLen(c[k]) >= 0 /\ SliceLen(c[k]) <= call.n

\* A text cut into several chunks, the last one shorter than the others.
C11_Witness ==
    /\ ChunkReturned /\ call.n > 0
    /\ Len(call.chunks) >= 2
    /\ SliceLen(call.chunks[Len(call.chunks)]) < call.n

\* The number of chunks of the transcript of session v.
Chunks(v) == Len(chunk_text(cb[v].length, CHUNK_SIZE))

\* Chunk request i of session v was issued.
ChunkRequested(v, i) ==
    \E j \in 1..Len(cb[v].log) : cb[v].log[j] = <<"chunk_req", i>>

\* C12: once the chunk loop is over, every chunk whose request failed (a
\* network error, the timeout or a response other than 200) has the
\* placeholder "[Chunk i summarization failed: ...]" in slot i, and every
\* chunk has been requested and has its result recorded.
C12_ChunkFailurePlaceholder ==
    \A v \in StartIds :
        Logged(v, "merge_req") =>
            /\ Len(cb[v].results) = Chunks(v)
            /\ \A i \in 1..Chunks(v) :
                   /\ ChunkRequested(v, i)
                   /\ cb[v].outcomes[i] # "streamed" =>
                          cb[v].results[i] = [chunk |-> i, kind |-> "placeholder"]

\* C13: the prompt of the merge request holds the T results in index
\* order, result i being the one obtained for chunk i (a summary for a
\* streamed answer, the placeholder for a request that raised), with a
\* blank line between two consecutive results and nothing else.
C13_ReduceInputOrder ==
    \A v \in StartIds :
        Logged(v, "merge_req") =>
            LET T == Chunks(v)
                p == cb[v].prompt
            IN  /\ Len(p) = IF T = 0 THEN 0 ELSE 2 * T - 1
                /\ \A i \in 1..T :
                       /\ p[2 * i - 1].chunk = i
                       /\ p[2 * i - 1].kind = "summary" <=>
                              cb[v].outcomes[i] = "streamed"
                       /\ p[2 * i - 1].kind = "placeholder" <=>
                              cb[v].outcomes[i] \in Raising
                /\ \A i \in 1..(T - 1) : p[2 * i] = Blank

\* Two chunks, one summarized and one whose request raised, merged.
C13_Witness ==
    \E v \in StartIds :
        /\ Logged(v, "merge_req")
        /\ Chunks(v) = 2
        /\ cb[v].outcomes[1] \in Raising
        /\ cb[v].outcomes[2] = "streamed"

\* The number of merge requests session v has issued.
MergeRequests(v) ==
    Cardinality({j \in 1..Len(cb[v].log) : cb[v].log[j][1] = "merge_req"})

\* C14: when every chunk request of a session has failed, the merge
\* request is issued exactly once, its prompt holds the failure placeholder
\* of every chunk, and the summarization step ends without an exception.
C14_AllChunksFailed ==
    \A v \in StartIds :
        (/\ Logged(v, "msg_generating")
         /\ Chunks(v) >= 1
         /\ \A i \in 1..Chunks(v) : cb[v].outcomes[i] # "streamed") =>
            /\ MergeRequests(v) = 1
            /\ Logged(v, "merge_done")
            /\ \A i \in 1..Chunks(v) :
                   \E k \in 1..Len(cb[v].prompt) :
                       cb[v].prompt[k] = [chunk |-> i, kind |-> "placeholder"]

\* C15: a failed merge request leaves the placeholder "[Merge step failed
\* contacting LLM at ...]" as the recap, and whatever the chunk and merge
\* requests answer the recap is a non-empty text, so that the publish step
\* has at least one part to send.
C15_RecapNeverEmpty ==
    \A v \in StartIds :
        Logged(v, "merge_done") =>
            /\ cb[v].merge # "streamed" => cb[v].final = MergePlaceholder
            /\ cb[v].final # <<>>
            /\ cb[v].parts # <<>>

\* C16: a call of chunk_text with a chunk size of zero or below ends with
\* an error for every transcript: it returns no list of chunks.
C16_RejectsBadChunkSize ==
    (call.fn = "chunk_text" /\ call.n <= 0 /\ call.state # "pending") =>
        call.state = "raised"

\* A call of split_discord that has returned.
SplitReturned == call.fn = "split_discord" /\ call.state = "returned"

\* The running count of split_discord for a part: one more than the length
\* of each of its lines.
RunningCount(buf) == SumLens(buf) + Len(buf)

\* The lines of the parts, in order.
RECURSIVE Flatten(_)
Flatten(parts) == IF parts = <<>> THEN <<>> ELSE Head(parts) \o Flatten(Tail(parts))

\* Every line of the text fits a part of its own under the limit.
LinesFit == \A i \in 1..Len(call.lines) : call.lines[i] <= call.limit - 1

\* C17: split_discord is the greedy line splitter.  For a text whose lines
\* all have at most limit - 1 characters the parts hold the lines in order,
\* every part has at least one line, a running count and a length of at
\* most the limit, and the running count of a part together with the first
\* line of the next part would exceed the limit.
C17_GreedySplit ==
    (SplitReturned /\ LinesFit) =>
        LET P == call.parts IN
        /\ Flatten(P) = call.lines
        /\ \A k \in 1..Len(P) :
               /\ P[k] # <<>>
               /\ RunningCount(P[k]) <= call.limit
               /\ PartLen(P[k]) <= call.limit
        /\ \A k \in 1..(Len(P) - 1) :
               RunningCount(P[k]) + P[k + 1][1] + 1 > call.limit

\* A text split into several parts, one of them of several lines, whose
\* running count reaches the limit exactly.
C17_Witness ==
    /\ SplitReturned /\ LinesFit
    /\ Len(call.parts) >= 2
    /\ \E k \in 1..Len(call.parts) :
           Len(call.parts[k]) >= 2 /\ RunningCount(call.parts[k]) = call.limit

\* C18: a text of one line longer than the limit comes back as exactly one
\* part, the whole line.
C18_LongLineOnePart ==
    (SplitReturned /\ Len(call.lines) = 1 /\ call.lines[1] > call.limit) =>
        call.parts = <<call.lines>>

\* The text of three lines of 1000 characters split under the limit 1900.
ThreeLines ==
    SplitReturned /\ call.lines = <<1000, 1000, 1000>> /\ call.limit = DISCORD_LIMIT

\* C19 as stated: three lines of 1000 characters under the limit 1900 give
\* two parts, lines 1 and 2 together and line 3.
C19_TwoParts == ThreeLines => call.parts = <<<<1000, 1000>>, <<1000>>>>

\* C19: three lines of 1000 characters under the limit 1900 give three
\* parts of one line each (two of the lines joined have 2001 characters).
C19_ThreeParts == ThreeLines => call.parts = <<<<1000>>, <<1000>>, <<1000>>>>

C19_Witness == ThreeLines

\* The position in the log of v of the send of recap part k (0 if none).
PartSentAt(v, k) ==
    IF \E j \in 1..Len(cb[v].log) : cb[v].log[j] = <<"part", k>>
    THEN CHOOSE j \in 1..Len(cb[v].log) : cb[v].log[j] = <<"part", k>>
    ELSE 0

\* The number of recap parts session v has sent.
PartsSent(v) ==
    Cardinality({j \in 1..Len(cb[v].log) : cb[v].log[j][1] = "part"})

\* C20: the recap parts are sent one at a time in the splitter's order
\* (the parts sent so far are parts 1..n, each once, part k + 1 after part
\* k), and the subtitle file is sent, or about to be sent, only after all
\* the parts and only with the file on disk.
C20_PublishOrder ==
    \A v \in StartIds :
        /\ PartsSent(v) = cb[v].sent
        /\ cb[v].sent <= Len(cb[v].parts)
        /\ \A k \in 1..cb[v].sent : PartSentAt(v, k) > 0
        /\ \A k \in 1..(cb[v].sent - 1) : PartSentAt(v, k) < PartSentAt(v, k + 1)
        /\ (cb[v].pc = "send_srt" \/ Logged(v, "srt_file")) =>
               /\ cb[v].sent = Len(cb[v].parts)
               /\ Logged(v, "merge_done")
               /\ files[Sid(v)].srt
        /\ \A j \in 1..Len(cb[v].log) :
               cb[v].log[j][1] = "srt_file" =>
                   \A k \in 1..Len(cb[v].parts) : PartSentAt(v, k) \in 1..(j - 1)

\* A recap of several parts published, followed by the subtitle file.
C20_Witness ==
    \E v \in StartIds :
        /\ cb[v].pc = "completed"
        /\ Len(cb[v].parts) >= 2
        /\ Logged(v, "srt_file")

\* A request to the transcription endpoint that has been answered.
Transcribed == call.fn = "transcribe" /\ call.state = "returned"

\* The request got past the check of the session id.
IdAccepted == call.ops # <<"validate">>

\* The string is 8 decimal digits, an underscore and 6 decimal digits, and
\* nothing more.
IsSessionId(s) == Len(s) = IdLen /\ PatternAt(s)

\* C21: the endpoint's check of the session id accepts exactly the strings
\* of 8 decimal digits, one underscore and 6 decimal digits, and rejects
\* every other string, a well-formed id followed by a newline included.
C21_ValidatorExact == Transcribed => (IdAccepted <=> IsSessionId(call.sid))

\* What the handler did with the file system or with external commands.
Touched == {i \in 1..Len(call.ops) : call.ops[i] # "validate"}

\* C22: a request whose session_id is not of the form of C21 is rejected
\* with nothing done but the check: no path built, no look at the file
\* system, no external command; and whatever is built or accessed comes
\* after the check.
C22_ValidateBeforeAccess ==
    Transcribed =>
        /\ call.ops[1] = "validate"
        /\ ~IsSessionId(call.sid) => (Touched = {} /\ call.status = "400")

\* The steps of the job the handler invoked, in order.
StepsInvoked == SubSeq(call.ops, Len(call.ops) - Cardinality({i \in 1..Len(call.ops) :
                   \E k \in 1..Len(JobSteps) : call.ops[i] = JobSteps[k]}) + 1,
                   Len(call.ops))

Invoked(step) == \E i \in 1..Len(call.ops) : call.ops[i] = step

\* C23: the job looks for the tracks and then runs mix, ASR, align,
\* subtitle export and text extraction in this order, ending at the first
\* step that fails: no mix without tracks, no ASR after a failed mix, no
\* transcript text after a failed ASR, align or export, and the answer is
\* 200 only if every step ran and none failed.
C23_JobStepOrder ==
    (Transcribed /\ IdAccepted) =>
        /\ StepsInvoked = SubSeq(JobSteps, 1, Len(StepsInvoked))
        /\ StepsInvoked # <<>> => Invoked("glob")
        /\ ~call.dir.wavs => (~Invoked("mix") /\ call.status # "200")
        /\ (call.dir.wavs /\ call.fail = "mix") =>
               (~Invoked("asr") /\ call.status = "500")
        /\ (call.dir.wavs /\ call.fail \in {"asr", "align", "srt"}) =>
               (call.out = <<-1>> /\ ~Invoked("text") /\ call.status = "500")
        /\ (call.dir.wavs /\ call.fail # "none") =>
               StepsInvoked[Len(StepsInvoked)] = call.fail
        /\ call.status = "200" <=> (call.dir.wavs /\ call.fail = "none")
        /\ call.status = "200" => (StepsInvoked = JobSteps /\ call.out # <<-1>>)

\* A job whose alignment failed after the mix and the ASR had run.
C23_Witness ==
    /\ Transcribed /\ IdAccepted
    /\ call.fail = "align"
    /\ StepsInvoked = <<"mix", "asr", "align">>
    /\ call.status = "500"

\* A call of extract_plain_text that has returned.
Extracted == call.fn = "extract_plain_text" /\ call.state = "returned"

\* The lines of a text: the pieces between its line breaks.
RECURSIVE SplitNl(_, _)
SplitNl(t, line) ==
    IF t = <<>> THEN <<line>>
    ELSE IF Head(t) = "nl" THEN <<line>> \o SplitNl(Tail(t), <<>>)
    ELSE SplitNl(Tail(t), Append(line, Head(t)))

\* The lines of the transcript returned: none for no segment.
OutLines == IF call.input = <<>> THEN call.out ELSE SplitNl(call.out, <<>>)

\* "label: " in front of the line of a labelled segment.
LabelPrefix(seg) == IF seg.spk # "" THEN <<seg.spk, ":", "sp">> ELSE <<>>

\* The text from its first to its last character that is not whitespace.
Trimmed(t) ==
    LET I == {i \in 1..Len(t) : t[i] \notin Whitespace} IN
    IF I = {} THEN <<>>
    ELSE SubSeq(t, CHOOSE i \in I : \A j \in I : i <= j,
                   CHOOSE i \in I : \A j \in I : i >= j)

\* C24 as stated: one line per segment, in order, "label: text" or "text"
\* with the segment's text reproduced exactly.
C24_LinePerSegmentExact ==
    Extracted =>
        /\ Len(OutLines) = Len(call.input)
        /\ \A i \in 1..Len(call.input) :
               OutLines[i] = LabelPrefix(call.input[i]) \o call.input[i].text

\* No text of the segments has a line break inside.
SingleLineTexts ==
    \A i \in 1..Len(call.input) :
        \A k \in 1..Len(Trimmed(call.input[i].text)) :
            Trimmed(call.input[i].text)[k] # "nl"

\* C24: for segments whose texts have no line break inside, the transcript
\* has one line per segment, in segment order, "label: text" for a
\* labelled segment and "text" otherwise, the text being the segment's
\* text without its leading and trailing whitespace.
C24_LinePerSegment ==
    (Extracted /\ SingleLineTexts) =>
        /\ Len(OutLines) = Len(call.input)
        /\ \A i \in 1..Len(call.input) :
               OutLines[i] =
                   LabelPrefix(call.input[i]) \o Trimmed(call.input[i].text)

\* Three segments, labelled and not, one with blanks around its text.
C24_Witness ==
    /\ Extracted /\ SingleLineTexts
    /\ Len(call.input) = 3
    /\ call.input[1].spk # "" /\ call.input[1].text = <<"sp", "c">>
    /\ call.input[2].spk = ""
    /\ Len(OutLines) = 3

\* The values of `response` of the fragments that carry the field.
RECURSIVE ResponsesOf(_)
ResponsesOf(frags) ==
    IF frags = <<>> THEN <<>>
    ELSE (IF Head(frags).kind \in {"text", "nonstr"}
          THEN <<Head(frags).value>> ELSE <<>>) \o ResponsesOf(Tail(frags))

\* C25: for every sequence of fragments stream_ollama returns the
\* concatenation, in arrival order, of the `response` values of the
\* fragments that parse and carry the field; the other fragments add
\* nothing and do not stop the reading.
C25_StreamConcat ==
    (call.fn = "stream_ollama" /\ call.state # "pending") =>
        /\ call.state = "returned"
        /\ call.out = ResponsesOf(call.input)

\* The number of entries of the log of v with the given tag.
Count(v, tag) ==
    Cardinality({j \in 1..Len(cb[v].log) : cb[v].log[j][1] = tag})

\* The recap parts session v has sent, by index, in the order of sending.
RECURSIVE PartsOf(_)
PartsOf(log) ==
    IF log = <<>> THEN <<>>
    ELSE (IF Head(log)[1] = "part" THEN <<Head(log)[2]>> ELSE <<>>)
             \o PartsOf(Tail(log))

\* Every stage of session v succeeded and the transcript is shorter than
\* one chunk.
AllSucceeded(v) ==
    /\ cb[v].pc = "completed"
    /\ cb[v].saved = "all" /\ cb[v].disc = "ok"
    /\ cb[v].tstatus = "200" /\ cb[v].length < CHUNK_SIZE
    /\ \A i \in 1..Len(cb[v].outcomes) : cb[v].outcomes[i] = "streamed"
    /\ cb[v].merge = "streamed"

\* C26: in a run where every stage succeeds and the transcript is shorter
\* than the chunk size, one chunk request and one merge request are
\* issued, the recap is the answer of the merge request, the recap
\* messages sent are the parts of the split recap in order, and the
\* registry no longer holds the guild.
C26_EndToEnd ==
    \A v \in StartIds :
        AllSucceeded(v) =>
            /\ Count(v, "chunk_req") = 1
            /\ Count(v, "merge_req") = 1
            /\ cb[v].final = cb[v].answer
            /\ cb[v].parts = split_discord(cb[v].final, DISCORD_LIMIT)
            /\ PartsOf(cb[v].log) = [k \in 1..Len(cb[v].parts) |-> k]
            /\ ~InRegistry(GUILD_ID)

\* The same holds when the transcript is not empty.
EndToEndNonEmpty ==
    \A v \in StartIds :
        (AllSucceeded(v) /\ cb[v].length > 0) =>
            /\ Count(v, "chunk_req") = 1
            /\ Count(v, "merge_req") = 1
            /\ cb[v].final = cb[v].answer
            /\ PartsOf(cb[v].log) = [k \in 1..Len(cb[v].parts) |-> k]
            /\ ~InRegistry(GUILD_ID)


(* ----------------------------- AudioWriter ---------------------------- *)

\* The wave objects held in self.files.
FileHandles == {aw.files[u] : u \in Users} \ {0}

\* The writer once thread t has begun a call: the thread remembers what
\* self.files and the track file held at that moment.
Enter(t, op, u, pc) ==
    [aw EXCEPT
       !.ncalls = @ + 1,
       !.only_writes = @ /\ op = "write",
       !.th[t] = [pc |-> pc, op |-> op, user |-> u, frame |-> aw.ncalls + 1,
                  h |-> 0, i |-> 1, size |-> Len(aw.keys), result |-> "none",
                  pre |-> [h |-> IF u = 0 THEN 0 ELSE aw.files[u],
                           live |-> u # 0 /\ aw.files[u] \in aw.opened,
                           audio |-> IF u = 0 THEN <<>> ELSE aw.disk[u],
                           handles |-> FileHandles]]]

\* Thread t is outside any call and may begin one more.
MayCall(t) ==
    /\ aw.th[t].pc \in {"idle", "done"}
    /\ aw.ncalls < MaxCalls

\* The call of thread t ends with the given result, the rest of the
\* writer being w.
Leave(w, t, result) ==
    [w EXCEPT !.th[t].pc = "done", !.th[t].result = result]

\* start_track(user_id) is called.
StartTrackCall(t, u) ==
    /\ MayCall(t)
    /\ aw' = Enter(t, "start_track", u, "open")
    /\ UNCHANGED <<sessions, starts, stops, vcs, cb, files, clock, call>>

\* write(user_id, pcm_bytes) is called; the frame is numbered by the call.
WriteCall(t, u) ==
    /\ MayCall(t)
    /\ aw' = Enter(t, "write", u, "check")
    /\ UNCHANGED <<sessions, starts, stops, vcs, cb, files, clock, call>>

\* close_all() is called.
CloseAllCall(t) ==
    /\ MayCall(t)
    /\ aw' = Enter(t, "close_all", 0, "closing")
    /\ UNCHANGED <<sessions, starts, stops, vcs, cb, files, clock, call>>

\* Line 26: `if user_id not in self.files`, read outside any lock.
WriteCheck(t) ==
    /\ aw.th[t].pc = "check"
    /\ aw' = [aw EXCEPT !.th[t].pc =
                IF aw.files[aw.th[t].user] = 0 THEN "open" ELSE "lock"]
    /\ UNCHANGED <<sessions, starts, stops, vcs, cb, files, clock, call>>

\* Lines 18-19: wave.open(path, 'wb') creates or truncates the track file
\* and returns a new wave object, or raises OSError.
StartTrackOpen(t) ==
    /\ aw.th[t].pc = "open"
    /\ \E ok \in BOOLEAN :
         LET u == aw.th[t].user IN
         aw' = IF ok
               THEN [aw EXCEPT !.disk[u] = <<>>,
                               !.nh = @ + 1,
                               !.opened = @ \cup {aw.nh + 1},
                               !.th[t].h = aw.nh + 1,
                               !.th[t].pc = "register"]
               ELSE Leave(aw, t, "os_error")
    /\ UNCHANGED <<sessions, starts, stops, vcs, cb, files, clock, call>>

\* The keys of self.files after an assignment to key u: a new key goes
\* last, a key already present keeps its place.
KeysWith(u) ==
    IF \E k \in 1..Len(aw.keys) : aw.keys[k] = u THEN aw.keys
    ELSE Append(aw.keys, u)

\* Lines 20-23: the wave object is configured and stored,
\* self.files[user_id] = wf, whatever the entry held before.
StartTrackRegister(t) ==
    /\ aw.th[t].pc = "register"
    /\ LET u == aw.th[t].user
           w == [aw EXCEPT !.files[u] = aw.th[t].h, !.keys = KeysWith(u)]
       IN aw' = IF aw.th[t].op = "write"
                THEN [w EXCEPT !.th[t].pc = "lock"]
                ELSE Leave(w, t, "returned")
    /\ UNCHANGED <<sessions, starts, stops, vcs, cb, files, clock, call>>

\* Line 28: `with self.locks[user_id]` waits until the lock is free.
WriteLock(t) ==
    /\ aw.th[t].pc = "lock"
    /\ aw.locks[aw.th[t].user] = 0
    /\ aw' = [aw EXCEPT !.locks[aw.th[t].user] = t, !.th[t].pc = "frames"]
    /\ UNCHANGED <<sessions, starts, stops, vcs, cb, files, clock, call>>

\* Line 29: self.files[user_id].writeframes(pcm_bytes) under the lock,
\* which the `with` releases on return and on an exception.  The lookup
\* raises KeyError when the entry was cleared meanwhile, writeframes
\* raises on a closed wave object or on an I/O error.
WriteFrames(t) ==
    /\ aw.th[t].pc = "frames"
    /\ LET u == aw.th[t].user
           h == aw.files[u]
           free == [aw EXCEPT !.locks[u] = 0]
       IN IF h = 0 THEN aw' = Leave(free, t, "key_error")
          ELSE IF h \notin aw.opened THEN aw' = Leave(free, t, "closed_error")
          ELSE \E ok \in BOOLEAN :
                 aw' = IF ok
                       THEN Leave([free EXCEPT
                                     !.disk[u] = Append(@, aw.th[t].frame),
                                     !.written = @ \cup {<<u, aw.th[t].frame>>}],
                                  t, "returned")
                       ELSE Leave(free, t, "os_error")
    /\ UNCHANGED <<sessions, starts, stops, vcs, cb, files, clock, call>>

\* Lines 32-33: one turn of `for wf in self.files.values(): wf.close()`.
\* The iteration raises RuntimeError when the dictionary changed size
\* since the loop began; close() of an open wave object returns or raises,
\* and the exception leaves the method; close() of a closed one returns.
CloseAllNext(t) ==
    /\ aw.th[t].pc = "closing"
    /\ \/ Len(aw.keys) # aw.th[t].size
       \/ aw.th[t].i <= aw.th[t].size
    /\ IF Len(aw.keys) # aw.th[t].size
       THEN aw' = Leave(aw, t, "runtime_error")
       ELSE LET h == aw.files[aw.keys[aw.th[t].i]]
                shut == [aw EXCEPT !.opened = @ \ {h}]
            IN \E ok \in IF h \in aw.opened THEN BOOLEAN ELSE {TRUE} :
                 aw' = IF ok THEN [shut EXCEPT !.th[t].i = @ + 1,
                                               !.final = @ \cup {aw.keys[aw.th[t].i]}]
                       ELSE Leave(shut, t, "os_error")
    /\ UNCHANGED <<sessions, starts, stops, vcs, cb, files, clock, call>>

\* Line 34: self.files.clear(), reached when every close() returned.
CloseAllClear(t) ==
    /\ aw.th[t].pc = "closing"
    /\ Len(aw.keys) = aw.th[t].size
    /\ aw.th[t].i > aw.th[t].size
    /\ aw' = Leave([aw EXCEPT !.keys = <<>>, !.files = [u \in Users |-> 0]],
                   t, "returned")
    /\ UNCHANGED <<sessions, starts, stops, vcs, cb, files, clock, call>>

\* The writer alone: no command arrives, the threads call its methods.
InitWriter ==
    /\ sessions = [g \in Guilds |-> NoEntry]
    /\ starts = [h \in StartIds |-> AbsentStart]
    /\ stops = [s \in StopIds |-> IdleStop]
    /\ vcs = [h \in StartIds |-> NoVc]
    /\ cb = [h \in StartIds |-> NoCb]
    /\ files = [d \in Sids |-> NoFiles]
    /\ clock = 0
    /\ call = NoCall
    /\ aw = NoWriter

NextWriter ==
    \/ \E t \in Threads, u \in Users : StartTrackCall(t, u)
    \/ \E t \in Threads, u \in Users : WriteCall(t, u)
    \/ \E t \in Threads : CloseAllCall(t)
    \/ \E t \in Threads : WriteCheck(t)
    \/ \E t \in Threads : StartTrackOpen(t)
    \/ \E t \in Threads : StartTrackRegister(t)
    \/ \E t \in Threads : WriteLock(t)
    \/ \E t \in Threads : WriteFrames(t)
    \/ \E t \in Threads : CloseAllNext(t)
    \/ \E t \in Threads : CloseAllClear(t)

SpecWriter == InitWriter /\ [][NextWriter]_vars

(* --------------------- AudioWriter: the contract ---------------------- *)

\* The call of thread t has ended, no other thread ever called the writer
\* and thread t began no later call: the writer is as this call left it.
Alone(t) ==
    /\ aw.th[t].pc = "done"
    /\ aw.th[t].frame = aw.ncalls
    /\ \A o \in Threads \ {t} : aw.th[o].pc = "idle"

\* C27: opening a track for a participant that already has an open track
\* fails with an already-open error and leaves the track's handle and the
\* audio already written to it unchanged.
C27_AlreadyOpen ==
    \A t \in Threads :
      (Alone(t) /\ aw.th[t].op = "start_track" /\ aw.th[t].pre.live) =>
        /\ aw.th[t].result = "already_open"
        /\ aw.files[aw.th[t].user] = aw.th[t].pre.h
        /\ aw.disk[aw.th[t].user] = aw.th[t].pre.audio

\* C28: appending audio for a participant that has no open track fails
\* with a not-open error, creates no track and writes no audio.
C28_NotOpen ==
    \A t \in Threads :
      (Alone(t) /\ aw.th[t].op = "write" /\ aw.th[t].pre.h = 0) =>
        /\ aw.th[t].result = "not_open"
        /\ aw.files[aw.th[t].user] = 0
        /\ aw.disk[aw.th[t].user] = aw.th[t].pre.audio

\* C29: close_all contains the error of a close that raises, and after it
\* none of the tracks it found open is open.
C29_CloseAllContained ==
    \A t \in Threads :
      (Alone(t) /\ aw.th[t].op = "close_all") =>
        /\ aw.th[t].result = "returned"
        /\ aw.th[t].pre.handles \cap aw.opened = {}

\* Thread t has opened the track of participant u and is configuring it,
\* or is writing frames to it.
InTrack(t, u) ==
    /\ aw.th[t].user = u
    /\ aw.th[t].pc \in {"register", "frames"}

\* The frames in the track file of participant u.
FramesOf(u) == {aw.disk[u][k] : k \in 1..Len(aw.disk[u])}

\* C30: when only write calls are made, at most one thread at a time opens
\* or writes the track of one participant, and every frame of a write call
\* that returned is in the track.
C30_WritesSequential ==
    aw.only_writes =>
      /\ \A u \in Users : \A t1, t2 \in Threads :
            (InTrack(t1, u) /\ InTrack(t2, u)) => t1 = t2
      /\ \A w \in aw.written : w[2] \in FramesOf(w[1])

\* Sequence a is an initial part of sequence b.
IsPrefix(a, b) == Len(a) <= Len(b) /\ SubSeq(b, 1, Len(a)) = a

\* C31: a track is append-only, and read-only once close_all has closed
\* it: no step shortens or replaces the audio in a participant's track
\* file, and no step alters the file of a track that close_all finalized.
C31_AppendOnly ==
    [][\A u \in Users :
         /\ IsPrefix(aw.disk[u], aw'.disk[u])
         /\ u \in aw.final => aw'.disk[u] = aw.disk[u]]_vars

\* The /startnotes command h was accepted: a recording was started and
\* registered under a session id.
Accepted(h) == starts[h].pc = "done" /\ starts[h].reply = "started"

\* C32: two distinct accepted sessions have distinct session ids, hence
\* distinct artifact directories.
C32_DistinctSessionIds ==
    \A h1, h2 \in StartIds :
      (h1 # h2 /\ Accepted(h1) /\ Accepted(h2)) => Sid(h1) # Sid(h2)

\* C33: whenever the voice client of a session records, the guild's
\* registry entry is that session, and a /stopnotes command that runs then
\* stops it and never answers that nothing is recording.
C33_RecordingRegistered ==
    [][/\ \A v \in StartIds :
            vcs[v].recording =>
              (InRegistry(GUILD_ID) /\ sessions[GUILD_ID].vc = v)
       /\ \A s \in StopIds :
            (stops[s].pc = "deferred" /\ stops'[s].pc = "done"
               /\ \E v \in StartIds : vcs[v].recording) =>
              /\ stops'[s].reply = "stopping"
              /\ \E v \in StartIds : vcs[v].recording /\ ~vcs'[v].recording]_vars

\* The positions in the log of session v of the events with the given tag.
Positions(v, tag) == {j \in 1..Len(cb[v].log) : cb[v].log[j][1] = tag}

\* C34: for a transcript split into T chunks, exactly T chunk requests are
\* issued, request i labelled i/T and carrying the instruction template and
\* the text of chunk i, in index order, and exactly one merge request is
\* issued, after the T results are recorded.
C34_MapRequests ==
    \A v \in StartIds :
        Logged(v, "merge_req") =>
            LET chunks == chunk_text(cb[v].length, CHUNK_SIZE)
                T == Len(chunks)
            IN  /\ Len(cb[v].requests) = T
                /\ \A i \in 1..T :
                       /\ cb[v].requests[i].index = i
                       /\ cb[v].requests[i].total = T
                       /\ cb[v].requests[i].text = chunks[i]
                       /\ cb[v].requests[i].template = "recap_prompt"
                /\ Count(v, "chunk_req") = T
                /\ \A i \in 1..T : \E j \in Positions(v, "chunk_req") :
                       /\ cb[v].log[j][2] = i
                       /\ Cardinality({k \in Positions(v, "chunk_req") : k < j}) = i - 1
                /\ Len(cb[v].results) = T
                /\ Count(v, "merge_req") = 1
                /\ \A j \in Positions(v, "chunk_req"), m \in Positions(v, "merge_req") :
                       j < m

\* A transcript of two chunks whose requests and merge request were made.
C34_Witness ==
    \E v \in StartIds :
        /\ Logged(v, "merge_req")
        /\ Len(cb[v].requests) = 2
        /\ cb[v].requests[2].text # cb[v].requests[1].text

\* The stages of the callback of session v each ran at most once.
RunsOnce(v) ==
    \A tag \in {"stop", "tracks", "disconnect", "evict", "transcribe_req",
                "msg_generating", "merge_req"} : Count(v, tag) <= 1

\* C35: the pipeline that follows a recording runs at most once per
\* accepted start whatever /stopnotes commands are issued, and a /stopnotes
\* command never ends with an exception.
C35_PipelineOnce ==
    /\ \A v \in StartIds : RunsOnce(v)
    /\ \A s \in StopIds : stops[s].reply # "raised"

\* C36: a /startnotes command that ends without having started a recording
\* leaves the registry unchanged and holds no voice connection.
C36_FailedStartClean ==
    [][\A h \in StartIds :
         (starts[h].pc # "done" /\ starts'[h].pc = "done"
            /\ starts'[h].reply # "started") =>
              /\ sessions' = sessions
              /\ ~vcs'[h].connected]_vars

\* The lines of the part "\n".join(buf), as str.splitlines() gives them:
\* the join puts a line break between two lines and none after the last,
\* so a part whose last line is empty ends with a line break (or is the
\* empty string) and that empty line is not one of its lines.
PartLines(buf) ==
    IF buf # <<>> /\ buf[Len(buf)] = 0 THEN SubSeq(buf, 1, Len(buf) - 1)
    ELSE buf

\* The lines of the parts, part after part.
RECURSIVE PartsLines(_)
PartsLines(parts) ==
    IF parts = <<>> THEN <<>>
    ELSE PartLines(Head(parts)) \o PartsLines(Tail(parts))

\* The non-empty lines among the given lines, in order.
RECURSIVE NonEmpty(_)
NonEmpty(lines) ==
    IF lines = <<>> THEN <<>>
    ELSE (IF Head(lines) > 0 THEN <<Head(lines)>> ELSE <<>>)
             \o NonEmpty(Tail(lines))

\* C37 as stated: the lines of the parts of split_discord, in part order,
\* are exactly the lines of the text, and an empty text yields no part.
C37_LinesPreservedExact ==
    SplitReturned =>
        /\ PartsLines(call.parts) = call.lines
        /\ call.lines = <<>> => call.parts = <<>>

\* C37: the non-empty lines of the parts of split_discord, in part order,
\* are exactly the non-empty lines of the text in order; the parts have no
\* line the text has not and lack at most one empty line per part (the one
\* that ends it); an empty text yields no part.
C37_LinesPreserved ==
    SplitReturned =>
        LET got == PartsLines(call.parts) IN
        /\ NonEmpty(got) = NonEmpty(call.lines)
        /\ Len(got) <= Len(call.lines)
        /\ Len(call.lines) - Len(got) =
               Cardinality({k \in 1..Len(call.parts) :
                              call.parts[k] # <<>> /\ PartLines(call.parts[k]) # call.parts[k]})
        /\ call.lines = <<>> => call.parts = <<>>

\* A text split into several parts, one of which ends with an empty line.
C37_Witness ==
    /\ SplitReturned
    /\ Len(call.parts) >= 2
    /\ \E k \in 1..Len(call.parts) :
           Len(call.parts[k]) >= 2 /\ call.parts[k][Len(call.parts[k])] = 0
    /\ NonEmpty(call.lines) # <<>>

\* Where the chunks of session v end in the transcript: 0 without chunks.
Covered(v) ==
    LET chunks == chunk_text(cb[v].length, CHUNK_SIZE) IN
    IF chunks = <<>> THEN 0 ELSE chunks[Len(chunks)][2]

\* C38: the transcript the endpoint returns is the first min(L, 200000)
\* characters of the persisted transcript of length L, so a session issues
\* at most 17 chunk requests, and its chunks reach the end of the persisted
\* transcript exactly when L is at most 200000.
C38_TranscriptCap ==
    \A v \in StartIds :
        cb[v].tstatus = "200" =>
            LET L == files[Sid(v)].txt IN
            /\ cb[v].length = Min(L, TRANSCRIPT_CAP)
            /\ Logged(v, "merge_req") =>
                   /\ Count(v, "chunk_req") <= 17
                   /\ Len(cb[v].requests) <= 17
                   /\ Covered(v) = L <=> L <= TRANSCRIPT_CAP

\* A transcript longer than the cap, summarized in 17 chunks.
C38_Witness ==
    \E v \in StartIds :
        /\ cb[v].tstatus = "200"
        /\ files[Sid(v)].txt > TRANSCRIPT_CAP
        /\ Logged(v, "merge_req")
        /\ Count(v, "chunk_req") = 17

====
